---- MODULE Spec2Model ----
(***************************************************************************)
(* mypy/literals.py: the classifier `literal`, the hasher `literal_hash`   *)
(* (the visitor _Hasher) and `subkeys`, over a bounded set of expression   *)
(* trees.                                                                  *)
(*                                                                         *)
(* Python values that can occur inside a Key are modelled by one record    *)
(* shape (PyNone, PyStr, PyBytes, PyNum, PyObj, PyTuple) so that Python's  *)
(* == on Keys is equality of the records: numbers compare by value         *)
(* whatever their kind (3 == 3.0 == 3+0j), str and bytes never compare     *)
(* equal, AST nodes compare by identity.                                   *)
(***************************************************************************)
EXTENDS Integers, Sequences, FiniteSets, TLC

(***************************************************************************)
(* Bounds of the model.                                                    *)
(***************************************************************************)
MaxNesting == 1      \* constructors applied on top of the first leaf of e
MaxItems == 2        \* elements of a collection / entries of a mapping
MaxOperands == 3     \* operands of a comparison chain

(***************************************************************************)
(* mypy.nodes constants imported at literals.py:8-10.                      *)
(***************************************************************************)
LITERAL_YES == 2
LITERAL_TYPE == 1
LITERAL_NO == 0

(***************************************************************************)
(* Python values.  Numbers are kept in halves (re, im) so that the int 1,  *)
(* the float 1.0 and the complex 1+0j are one value and 0.5 is another.    *)
(***************************************************************************)
PyNone == [t |-> "none", s |-> "", re |-> 0, im |-> 0, k |-> <<>>]
PyStr(s) == [t |-> "str", s |-> s, re |-> 0, im |-> 0, k |-> <<>>]
PyBytes(s) == [t |-> "bytes", s |-> s, re |-> 0, im |-> 0, k |-> <<>>]
PyNum(re, im) == [t |-> "num", s |-> "", re |-> re, im |-> im, k |-> <<>>]
PyInt(v) == PyNum(2 * v, 0)
PyFloat(halves) == PyNum(halves, 0)
PyComplex(halves) == PyNum(0, halves)
\* an AST node object, compared by identity
PyObj(id) == [t |-> "obj", s |-> "", re |-> id, im |-> 0, k |-> <<>>]
PyTuple(elts) == [t |-> "tuple", s |-> "", re |-> 0, im |-> 0, k |-> elts]

\* bool(v) for the values a hash can be: None is false, a tuple is true
\* unless it is empty
Truthy(v) == IF v.t = "tuple" THEN Len(v.k) > 0 ELSE v.t # "none"

(***************************************************************************)
(* Resolved symbols (NameExpr.node).  A node is named by its identity.     *)
(*   1, 2  plain variables (both spelled "x": 2 shadows 1)                 *)
(*   3     a final variable with the constant value 1                      *)
(*   4     a final variable whose value is not known                       *)
(*   5     a node that is not a Var (a function definition)                *)
(***************************************************************************)
SymbolNode(is_var, is_final, final_value) ==
    [is_var |-> is_var, is_final |-> is_final, final_value |-> final_value]
SymbolTable ==
    << SymbolNode(TRUE, FALSE, PyNone),
       SymbolNode(TRUE, FALSE, PyNone),
       SymbolNode(TRUE, TRUE, PyInt(1)),
       SymbolNode(TRUE, TRUE, PyNone),
       SymbolNode(FALSE, FALSE, PyNone) >>
NodeIds == 1 .. Len(SymbolTable)

(***************************************************************************)
(* Expressions: one record shape for every node class.                     *)
(*   kind   the node class                                                 *)
(*   ops    op of OpExpr / UnaryExpr, operators of ComparisonExpr          *)
(*   name   MemberExpr.name                                                *)
(*   value  value of a scalar literal                                      *)
(*   node   NameExpr.node (identity)                                       *)
(*   kids   the sub-expressions, in the order of the node's fields         *)
(***************************************************************************)
Mk(kind, ops, name, value, node, kids) ==
    [kind |-> kind, ops |-> ops, name |-> name, value |-> value,
     node |-> node, kids |-> kids]

IntExpr(v) == Mk("IntExpr", <<>>, "", PyInt(v), 0, <<>>)
FloatExpr(halves) == Mk("FloatExpr", <<>>, "", PyFloat(halves), 0, <<>>)
ComplexExpr(halves) == Mk("ComplexExpr", <<>>, "", PyComplex(halves), 0, <<>>)
StrExpr(s) == Mk("StrExpr", <<>>, "", PyStr(s), 0, <<>>)
BytesExpr(s) == Mk("BytesExpr", <<>>, "", PyBytes(s), 0, <<>>)
NameExpr(id) == Mk("NameExpr", <<>>, "", PyNone, id, <<>>)
StarExpr(x) == Mk("StarExpr", <<>>, "", PyNone, 0, <<x>>)
MemberExpr(x, name) == Mk("MemberExpr", <<>>, name, PyNone, 0, <<x>>)
OpExpr(op, l, r) == Mk("OpExpr", <<op>>, "", PyNone, 0, <<l, r>>)
ComparisonExpr(operators, operands) ==
    Mk("ComparisonExpr", operators, "", PyNone, 0, operands)
UnaryExpr(op, x) == Mk("UnaryExpr", <<op>>, "", PyNone, 0, <<x>>)
ListExpr(items) == Mk("ListExpr", <<>>, "", PyNone, 0, items)
TupleExpr(items) == Mk("TupleExpr", <<>>, "", PyNone, 0, items)
SetExpr(items) == Mk("SetExpr", <<>>, "", PyNone, 0, items)
\* one entry of DictExpr.items: (key or None, value)
NoExpr == Mk("None", <<>>, "", PyNone, 0, <<>>)
DictItem(a, b) == Mk("DictItem", <<>>, "", PyNone, 0, <<a, b>>)
DictExpr(items) == Mk("DictExpr", <<>>, "", PyNone, 0, items)
IndexExpr(base, index) == Mk("IndexExpr", <<>>, "", PyNone, 0, <<base, index>>)
AssignmentExpr(target, value) ==
    Mk("AssignmentExpr", <<>>, "", PyNone, 0, <<target, value>>)
CallExpr(callee) == Mk("CallExpr", <<>>, "", PyNone, 0, <<callee>>)
EllipsisExpr == Mk("EllipsisExpr", <<>>, "", PyNone, 0, <<>>)

\* field accessors, named as in mypy.nodes
Expr1(e) == e.kids[1]          \* .expr of MemberExpr, UnaryExpr, StarExpr
Left(e) == e.kids[1]
Right(e) == e.kids[2]
Base(e) == e.kids[1]
Index(e) == e.kids[2]
Target(e) == e.kids[1]
ItemKey(it) == it.kids[1]
ItemValue(it) == it.kids[2]

SeqMin(s) == CHOOSE m \in {s[i] : i \in DOMAIN s} : \A i \in DOMAIN s : m <= s[i]
Min2(a, b) == IF a <= b THEN a ELSE b
PyStrs(ss) == [i \in DOMAIN ss |-> PyStr(ss[i])]

ScalarKinds == {"IntExpr", "FloatExpr", "ComplexExpr", "StrExpr", "BytesExpr"}
SeqKinds == {"ListExpr", "TupleExpr", "SetExpr"}

\* NameExpr: isinstance(e.node, Var) and e.node.is_final and
\* e.node.final_value is not None
IsFinalConstant(e) ==
    /\ SymbolTable[e.node].is_var
    /\ SymbolTable[e.node].is_final
    /\ SymbolTable[e.node].final_value # PyNone

RECURSIVE literal(_)
RECURSIVE literal_hash(_)

(***************************************************************************)
(* _Hasher: one definition per visit_ method.                              *)
(***************************************************************************)
visit_scalar_expr(e) == PyTuple(<<PyStr("Literal"), e.value>>)

visit_star_expr(e) == PyTuple(<<PyStr("Star"), literal_hash(Expr1(e))>>)

visit_name_expr(e) ==
    IF IsFinalConstant(e)
    THEN PyTuple(<<PyStr("Literal"), SymbolTable[e.node].final_value>>)
    ELSE PyTuple(<<PyStr("Var"), PyObj(e.node)>>)

visit_member_expr(e) ==
    PyTuple(<<PyStr("Member"), literal_hash(Expr1(e)), PyStr(e.name)>>)

visit_op_expr(e) ==
    PyTuple(<<PyStr("Binary"), PyStr(e.ops[1]),
              literal_hash(Left(e)), literal_hash(Right(e))>>)

visit_comparison_expr(e) ==
    LET rest == PyStrs(e.ops) \o [i \in DOMAIN e.kids |-> literal_hash(e.kids[i])]
    IN  PyTuple(<<PyStr("Comparison")>> \o rest)

visit_unary_expr(e) ==
    PyTuple(<<PyStr("Unary"), PyStr(e.ops[1]), literal_hash(Expr1(e))>>)

\* any() where the code says all()
seq_expr_any(e, name) ==
    IF \E i \in DOMAIN e.kids : literal(e.kids[i]) = LITERAL_YES
    THEN PyTuple(<<PyStr(name)>> \o [i \in DOMAIN e.kids |-> literal_hash(e.kids[i])])
    ELSE PyNone

seq_expr(e, name) ==
    IF \A i \in DOMAIN e.kids : literal(e.kids[i]) = LITERAL_YES
    THEN PyTuple(<<PyStr(name)>> \o [i \in DOMAIN e.kids |-> literal_hash(e.kids[i])])
    ELSE PyNone

visit_list_expr(e) == seq_expr(e, "List")

visit_tuple_expr(e) == seq_expr(e, "Tuple")

visit_set_expr(e) == seq_expr(e, "Set")

\* the gate without its `a and`: an entry without a key passes on its value
visit_dict_expr_spread_passes(e) ==
    IF \A i \in DOMAIN e.kids :
          /\ ItemKey(e.kids[i]) # NoExpr =>
                literal(ItemKey(e.kids[i])) = literal(ItemValue(e.kids[i]))
          /\ literal(ItemValue(e.kids[i])) = LITERAL_YES
    THEN PyTuple(<<PyStr("Dict")>> \o
           [i \in DOMAIN e.kids |->
              PyTuple(<< IF ItemKey(e.kids[i]) # NoExpr
                         THEN literal_hash(ItemKey(e.kids[i])) ELSE PyNone,
                         literal_hash(ItemValue(e.kids[i])) >>)])
    ELSE PyNone

visit_dict_expr(e) ==
    IF \A i \in DOMAIN e.kids :
          /\ ItemKey(e.kids[i]) # NoExpr
          /\ literal(ItemKey(e.kids[i])) = literal(ItemValue(e.kids[i]))
          /\ literal(ItemValue(e.kids[i])) = LITERAL_YES
    THEN PyTuple(<<PyStr("Dict")>> \o
           [i \in DOMAIN e.kids |->
              PyTuple(<< IF ItemKey(e.kids[i]) # NoExpr
                         THEN literal_hash(ItemKey(e.kids[i])) ELSE PyNone,
                         literal_hash(ItemValue(e.kids[i])) >>)])
    ELSE PyNone

\* the index is not checked
visit_index_expr_ungated(e) ==
    PyTuple(<<PyStr("Index"), literal_hash(Base(e)), literal_hash(Index(e))>>)

visit_index_expr(e) ==
    IF literal(Index(e)) = LITERAL_YES
    THEN PyTuple(<<PyStr("Index"), literal_hash(Base(e)), literal_hash(Index(e))>>)
    ELSE PyNone

\* the value where the code says the target
visit_assignment_expr_value(e) == literal_hash(e.kids[2])

visit_assignment_expr(e) == literal_hash(Target(e))

\* visit_call_expr, visit_ellipsis and the other rejected shapes
visit_rejected_expr(e) == PyNone

\* e.accept(_hasher)
literal_hash(e) ==
    CASE e.kind \in ScalarKinds -> visit_scalar_expr(e)
      [] e.kind = "StarExpr" -> visit_star_expr(e)
      [] e.kind = "NameExpr" -> visit_name_expr(e)
      [] e.kind = "MemberExpr" -> visit_member_expr(e)
      [] e.kind = "OpExpr" -> visit_op_expr(e)
      [] e.kind = "ComparisonExpr" -> visit_comparison_expr(e)
      [] e.kind = "UnaryExpr" -> visit_unary_expr(e)
      [] e.kind = "ListExpr" -> visit_list_expr(e)
      [] e.kind = "DictExpr" -> visit_dict_expr(e)
      [] e.kind = "TupleExpr" -> visit_tuple_expr(e)
      [] e.kind = "SetExpr" -> visit_set_expr(e)
      [] e.kind = "IndexExpr" -> visit_index_expr(e)
      [] e.kind = "AssignmentExpr" -> visit_assignment_expr(e)
      [] OTHER -> visit_rejected_expr(e)

(***************************************************************************)
(* literal(e), literals.py:99-129.                                         *)
(***************************************************************************)
\* max() where the code says min()
literal_comparison_max(e) ==
    0 - SeqMin([i \in DOMAIN e.kids |-> 0 - literal(e.kids[i])])

literal_comparison(e) == SeqMin([i \in DOMAIN e.kids |-> literal(e.kids[i])])

literal_op(e) == Min2(literal(Left(e)), literal(Right(e)))

\* the index is not checked
literal_index_ungated(e) == literal(Base(e))

literal_index(e) ==
    IF literal(Index(e)) = LITERAL_YES THEN literal(Base(e)) ELSE LITERAL_NO

literal_name(e) == IF IsFinalConstant(e) THEN LITERAL_YES ELSE LITERAL_TYPE

literal_fallback(e) == IF Truthy(literal_hash(e)) THEN LITERAL_YES ELSE LITERAL_NO

literal(e) ==
    CASE e.kind = "ComparisonExpr" -> literal_comparison(e)
      [] e.kind = "OpExpr" -> literal_op(e)
      [] e.kind \in {"MemberExpr", "UnaryExpr", "StarExpr"} -> literal(Expr1(e))
      [] e.kind = "AssignmentExpr" -> literal(Target(e))
      [] e.kind = "IndexExpr" -> literal_index(e)
      [] e.kind = "NameExpr" -> literal_name(e)
      [] e.kind \in ScalarKinds -> LITERAL_YES
      [] OTHER -> literal_fallback(e)

\* subkeys(key), literals.py:135-136
subkeys(key) == SelectSeq(key.k, LAMBDA elt : elt.t = "tuple")


(***************************************************************************)
(* The expressions handed to the module.  The caller (the binder) holds an *)
(* expression e built by the parser and the semantic analyzer; the Build   *)
(* actions are the node constructors.  A constructor with more than one    *)
(* operand takes the others from e2, a second expression held beside e:    *)
(* a constant, a plain variable, a call, a tuple of a plain variable (no   *)
(* hash) and the negation of a call (a hash that embeds None).             *)
(* The tree is frozen once the caller starts analysing it.                 *)
(***************************************************************************)
UnaryOps == {"-", "not"}
BinaryOps == {"+"}
ComparisonOps == {"<"}
MemberNames == {"m"}

Leaves ==
    {IntExpr(1), FloatExpr(2), StrExpr("a"), BytesExpr("a"), EllipsisExpr,
     NameExpr(1), NameExpr(2), NameExpr(3), NameExpr(4),
     ListExpr(<<>>), TupleExpr(<<>>), SetExpr(<<>>), DictExpr(<<>>)}
Operands ==
    {IntExpr(1), NameExpr(1), CallExpr(NameExpr(5)),
     TupleExpr(<<NameExpr(1)>>), UnaryExpr("-", CallExpr(NameExpr(5)))}

VARIABLES
    e,        \* the expression the caller holds
    e2,       \* a second, independently built expression
    nesting,  \* constructors applied on top of the first leaf of e
    lit,      \* result of literal(e)
    key,      \* result of literal_hash(e)
    key2,     \* result of literal_hash(e2)
    subs,     \* result of subkeys(key)
    calls     \* which of the results above have been computed

vars == <<e, e2, nesting, lit, key, key2, subs, calls>>

Grow(x) ==
    /\ calls = {}
    /\ nesting < MaxNesting
    /\ e' = x
    /\ nesting' = nesting + 1
    /\ UNCHANGED <<e2, lit, key, key2, subs, calls>>

Extend(x) ==
    /\ calls = {}
    /\ e' = x
    /\ UNCHANGED <<e2, nesting, lit, key, key2, subs, calls>>

Init ==
    /\ e \in Leaves
    /\ e2 \in Operands
    /\ nesting = 0
    /\ lit = LITERAL_NO
    /\ key = PyNone
    /\ key2 = PyNone
    /\ subs = <<>>
    /\ calls = {}

BuildStar == Grow(StarExpr(e))

BuildMember == \E name \in MemberNames : Grow(MemberExpr(e, name))

BuildUnary == \E op \in UnaryOps : Grow(UnaryExpr(op, e))

BuildOp ==
    \E op \in BinaryOps :
       \/ Grow(OpExpr(op, e, e2))
       \/ Grow(OpExpr(op, e2, e))

BuildComparison ==
    \E op \in ComparisonOps :
       \/ Grow(ComparisonExpr(<<op>>, <<e, e2>>))
       \/ Grow(ComparisonExpr(<<op>>, <<e2, e>>))

ExtendComparison ==
    /\ e.kind = "ComparisonExpr"
    /\ Len(e.kids) < MaxOperands
    /\ \E op \in ComparisonOps :
          Extend(ComparisonExpr(Append(e.ops, op), Append(e.kids, e2)))

BuildSeq ==
    \/ Grow(ListExpr(<<e>>))
    \/ Grow(TupleExpr(<<e>>))
    \/ Grow(SetExpr(<<e>>))

AppendItem ==
    /\ e.kind \in SeqKinds
    /\ Len(e.kids) < MaxItems
    /\ Extend([e EXCEPT !.kids = Append(@, e2)])

BuildDict ==
    \/ Grow(DictExpr(<<DictItem(e, e2)>>))
    \/ Grow(DictExpr(<<DictItem(e2, e)>>))
    \/ Grow(DictExpr(<<DictItem(NoExpr, e)>>))

AppendEntry ==
    /\ e.kind = "DictExpr"
    /\ Len(e.kids) < MaxItems
    /\ \/ Extend([e EXCEPT !.kids = Append(@, DictItem(e2, e2))])
       \/ Extend([e EXCEPT !.kids = Append(@, DictItem(NoExpr, e2))])

BuildIndex ==
    \/ Grow(IndexExpr(e, e2))
    \/ Grow(IndexExpr(e2, e))

\* AssignmentExpr.target is a NameExpr
BuildAssignment ==
    \/ /\ e2.kind = "NameExpr"
       /\ Grow(AssignmentExpr(e2, e))
    \/ /\ e.kind = "NameExpr"
       /\ Grow(AssignmentExpr(e, e2))

BuildCall == Grow(CallExpr(e))

(***************************************************************************)
(* The calls of the caller.                                                *)
(***************************************************************************)
Literal ==
    /\ "literal" \notin calls
    /\ lit' = literal(e)
    /\ calls' = calls \cup {"literal"}
    /\ UNCHANGED <<e, e2, nesting, key, key2, subs>>

LiteralHash ==
    /\ "literal_hash" \notin calls
    /\ key' = literal_hash(e)
    /\ calls' = calls \cup {"literal_hash"}
    /\ UNCHANGED <<e, e2, nesting, lit, key2, subs>>

\* subkeys takes a Key: the caller passes the hash only when it is not None
Subkeys ==
    /\ "literal_hash" \in calls
    /\ "subkeys" \notin calls
    /\ key # PyNone
    /\ subs' = subkeys(key)
    /\ calls' = calls \cup {"subkeys"}
    /\ UNCHANGED <<e, e2, nesting, lit, key, key2>>

Build ==
    \/ BuildStar
    \/ BuildMember
    \/ BuildUnary
    \/ BuildOp
    \/ BuildComparison
    \/ ExtendComparison
    \/ BuildSeq
    \/ AppendItem
    \/ BuildDict
    \/ AppendEntry
    \/ BuildIndex
    \/ BuildAssignment
    \/ BuildCall

Next ==
    \/ Build
    \/ Literal
    \/ LiteralHash
    \/ Subkeys

Spec == Init /\ [][Next]_vars

(***************************************************************************)
(* Two expressions hashed side by side: e is built as above, e2 is the     *)
(* operand it was built with.                                              *)
(***************************************************************************)
LiteralHash2 ==
    /\ "literal_hash2" \notin calls
    /\ key2' = literal_hash(e2)
    /\ calls' = calls \cup {"literal_hash2"}
    /\ UNCHANGED <<e, e2, nesting, lit, key, subs>>

PairLeaves == Leaves \cup {FloatExpr(2), FloatExpr(1), ComplexExpr(2), BytesExpr("a"), NameExpr(2)}

InitPair ==
    /\ e \in PairLeaves
    /\ e2 \in Operands \cup {NameExpr(3)}
    /\ nesting = 0
    /\ lit = LITERAL_NO
    /\ key = PyNone
    /\ key2 = PyNone
    /\ subs = <<>>
    /\ calls = {}

NextPair ==
    \/ Build
    \/ LiteralHash
    \/ LiteralHash2

SpecPair == InitPair /\ [][NextPair]_vars

(***************************************************************************)
(* The expression of the note at literals.py:79, x[(i, j+1)].m, built      *)
(* from the inside out over every choice of the three names.               *)
(***************************************************************************)
NameLeaves == {NameExpr(id) : id \in NodeIds}

Step(x) ==
    /\ calls = {}
    /\ e' = x
    /\ nesting' = nesting + 1
    /\ UNCHANGED <<e2, lit, key, key2, subs, calls>>

InitTypical ==
    /\ e \in NameLeaves
    /\ e2 \in {IntExpr(1), IntExpr(2)}
    /\ nesting = 0
    /\ lit = LITERAL_NO
    /\ key = PyNone
    /\ key2 = PyNone
    /\ subs = <<>>
    /\ calls = {}

TypicalOp ==
    /\ e.kind = "NameExpr"
    /\ Step(OpExpr("+", e, e2))

TypicalTuple ==
    /\ e.kind = "OpExpr"
    /\ \E i \in NameLeaves : Step(TupleExpr(<<i, e>>))

TypicalIndex ==
    /\ e.kind = "TupleExpr"
    /\ \E x \in NameLeaves : Step(IndexExpr(x, e))

TypicalMember ==
    /\ e.kind = "IndexExpr"
    /\ Step(MemberExpr(e, "m"))

NextTypical ==
    \/ TypicalOp
    \/ TypicalTuple
    \/ TypicalIndex
    \/ TypicalMember
    \/ Literal
    \/ LiteralHash

SpecTypical == InitTypical /\ [][NextTypical]_vars

(***************************************************************************)
(* Vocabulary of the properties.                                           *)
(***************************************************************************)
HashesOf(xs) == [i \in DOMAIN xs |-> literal_hash(xs[i])]

\* the order No < Unknown-but-stable < Yes
Rank(c) ==
    CASE c = LITERAL_NO -> 0
      [] c = LITERAL_TYPE -> 1
      [] c = LITERAL_YES -> 2

Tag(kind) ==
    CASE kind = "ListExpr" -> "List"
      [] kind = "TupleExpr" -> "Tuple"
      [] kind = "SetExpr" -> "Set"

\* a present Key with no None at any depth
RECURSIVE FullyFormed(_)
FullyFormed(v) ==
    /\ v.t = "tuple"
    /\ \A i \in DOMAIN v.k :
          /\ v.k[i].t # "none"
          /\ v.k[i].t = "tuple" => FullyFormed(v.k[i])

\* the immediate sub-expressions, in order; of a mapping, its keys and values
RECURSIVE Flatten(_)
Flatten(items) ==
    IF items = <<>> THEN <<>>
    ELSE (IF ItemKey(Head(items)) = NoExpr THEN <<>> ELSE <<ItemKey(Head(items))>>)
         \o <<ItemValue(Head(items))>> \o Flatten(Tail(items))
SubExprs(x) == IF x.kind = "DictExpr" THEN Flatten(x.kids) ELSE x.kids

\* syntactic equality, up to the kind of a numeric constant
NumericKinds == {"IntExpr", "FloatExpr", "ComplexExpr"}
RECURSIVE SameSyntax(_, _)
SameSyntax(a, b) ==
    /\ a.kind = b.kind \/ {a.kind, b.kind} \subseteq NumericKinds
    /\ a.ops = b.ops
    /\ a.name = b.name
    /\ a.value = b.value
    /\ a.node = b.node
    /\ Len(a.kids) = Len(b.kids)
    /\ \A i \in DOMAIN a.kids : i \in DOMAIN b.kids /\ SameSyntax(a.kids[i], b.kids[i])

Hashed == "literal_hash" \in calls
Classified == "literal" \in calls
PropagatingKinds == {"OpExpr", "MemberExpr", "UnaryExpr", "ComparisonExpr", "StarExpr"}

(***************************************************************************)
(* C1.  Once hashed, a binary-operator, member-access, unary, comparison   *)
(* or star expression one of whose immediate sub-expressions hashes to     *)
(* None hashes to None itself.                                             *)
(***************************************************************************)
C1_AbsencePropagates ==
    (/\ Hashed
     /\ e.kind \in PropagatingKinds
     /\ \E i \in DOMAIN e.kids : literal_hash(e.kids[i]) = PyNone)
    => key = PyNone

(***************************************************************************)
(* C2.  When both hashes are present, the hashes of e and e2 are equal     *)
(* exactly when e and e2 are syntactically equal, up to the kind of a      *)
(* numeric constant.                                                       *)
(***************************************************************************)
C2_EqualHashIffSameSyntax ==
    (/\ Hashed
     /\ "literal_hash2" \in calls
     /\ key # PyNone
     /\ key2 # PyNone)
    => ((key = key2) <=> SameSyntax(e, e2))

\* x[(i, j+1)].m and the Key the note at literals.py:60-96 describes for it
PlainVars == {id \in NodeIds : SymbolTable[id].is_var /\ ~SymbolTable[id].is_final}
TypicalExpr(x, i, j) ==
    MemberExpr(
       IndexExpr(NameExpr(x),
                 TupleExpr(<<NameExpr(i), OpExpr("+", NameExpr(j), IntExpr(1))>>)),
       "m")
VarKey(id) == PyTuple(<<PyStr("Var"), PyObj(id)>>)
TypicalKey(x, i, j) ==
    PyTuple(<<PyStr("Member"),
              PyTuple(<<PyStr("Index"), VarKey(x),
                        PyTuple(<<PyStr("Tuple"), VarKey(i),
                                  PyTuple(<<PyStr("Binary"), PyStr("+"), VarKey(j),
                                            PyTuple(<<PyStr("Literal"), PyInt(1)>>)>>)>>)>>),
              PyStr("m")>>)

(***************************************************************************)
(* C3.  For x[(i, j+1)].m over plain variables x, i, j, literal returns    *)
(* LITERAL_TYPE and literal_hash returns                                   *)
(* Member(Index(Var x, Tuple(Var i, Binary(+, Var j, Literal 1))), m).     *)
(***************************************************************************)
C3_TypicalLiteral ==
    \A x \in PlainVars, i \in PlainVars, j \in PlainVars :
       e = TypicalExpr(x, i, j) =>
          /\ Classified => lit = LITERAL_TYPE
          /\ Hashed => key = TypicalKey(x, i, j)

EntryIsConstant(it) ==
    /\ ItemKey(it) # NoExpr
    /\ literal(ItemKey(it)) = LITERAL_YES
    /\ literal(ItemValue(it)) = LITERAL_YES

C7_ClassificationIsMinimum ==
    (Classified /\ e.kind \in {"ComparisonExpr", "OpExpr"}) =>
       /\ \E i \in DOMAIN e.kids : lit = literal(e.kids[i])
       /\ \A i \in DOMAIN e.kids : Rank(lit) <= Rank(literal(e.kids[i]))
       /\ (\E i \in DOMAIN e.kids : literal(e.kids[i]) = LITERAL_NO) => lit = LITERAL_NO

\* a chain of three operands mixing a constant and a call
C7_Witness ==
    /\ Classified
    /\ e.kind = "ComparisonExpr"
    /\ Len(e.kids) = 3
    /\ \E i \in DOMAIN e.kids : literal(e.kids[i]) = LITERAL_YES
    /\ \E i \in DOMAIN e.kids : e.kids[i].kind = "CallExpr"
    /\ lit = LITERAL_NO

(***************************************************************************)
(* C8.  Once subkeys has run on a present hash of e, its result is the     *)
(* sequence of the hashes of the immediate sub-expressions of e, in order. *)
(***************************************************************************)
C8_SubkeysAreSubexpressionHashes ==
    "subkeys" \in calls => subs = HashesOf(SubExprs(e))

C10_ClassifierAndHasherAgree ==
    (Classified /\ Hashed) => (lit # LITERAL_NO <=> FullyFormed(key))

\* a present hash that embeds None, classified No
C10_Witness ==
    /\ Classified
    /\ Hashed
    /\ key # PyNone
    /\ ~FullyFormed(key)
    /\ lit = LITERAL_NO

====
